---- MODULE Spec2Model ----
(***************************************************************************)
(* Model of the yamdb data model (reviews/models.py) and of its            *)
(* serializers (api/serializers.py): the tables, the constraints the       *)
(* database enforces, the on_delete rules and the validation each          *)
(* serializer runs before a row is written.                                *)
(*                                                                         *)
(* Rows are records; a table is a function from primary keys to rows.      *)
(* Primary keys come from a sequence that is never reused (AutoField).     *)
(* Text columns that no validation reads (Review.text, Comment.text,       *)
(* Title.description, first_name, last_name, bio, the name of a Category   *)
(* or a Genre) are left out of the rows.                                   *)
(***************************************************************************)
EXTENDS Integers, Sequences, FiniteSets, Bags, TLC

\* The fields of the rows and messages of the model and what each stands
\* for. Every record below lists its fields in this order.
Fields ==
    [author |-> "Review.author, Comment.author: a User id",
     category |-> "Title.category: a Category slug, or Null",
     comment |-> "the next Comment id",
     data |-> "the validated payload of a pending request",
     den |-> "Avg: the number of scores averaged",
     email |-> "User.email",
     errors |-> "the key of an error body",
     genre |-> "Title.genre: a set of Genre slugs",
     kind |-> "int, none, absent, list or avg",
     name |-> "Title.name",
     num |-> "Avg: the sum of the scores averaged",
     op |-> "the request a response answers",
     rating |-> "Title.rating, the stored column",
     review |-> "Comment.review: a Review id; the next Review id",
     role |-> "User.role",
     score |-> "Review.score",
     status |-> "how a request ended",
     title |-> "Review.title: a Title id; the next Title id",
     user |-> "the next User id",
     username |-> "User.username",
     val |-> "the int or the list a field carries",
     validated |-> "the year in which Title.year was validated",
     year |-> "Title.year"]

VARIABLES
    users,           \* User table: id -> [username, email, role]
    categories,      \* Category table, keyed by its unique slug
    genres,          \* Genre table, keyed by its unique slug
    titles,          \* Title table: id -> [name, year, category, genre, rating, validated]
    reviews,         \* Review table: id -> [title, author, score]
    comments,        \* Comment table: id -> [review, author]
    seq,             \* next primary key of each table
    pendingReviews,  \* review POSTs that passed is_valid() and are not saved yet (a bag)
    pendingTitles,   \* title POSTs that passed is_valid() and are not saved yet (a bag)
    now,             \* datetime.datetime.now().year
    resp             \* outcome of the last request: [op, status, errors]

vars == <<users, categories, genres, titles, reviews, comments, seq,
          pendingReviews, pendingTitles, now, resp>>

\* ------------------------------------------------------------------ values

\* A string field the request body does not carry, and a null reference.
Absent == "absent"
Null == "null"
\* A username the request body does not carry (a blank CharField is refused
\* before any validator runs, so the empty string is free to stand for it).
NoName == << >>
\* Integer fields hold a Python int, None, or are not carried by the body.
Num(n) == [kind |-> "int", val |-> n]
None == [kind |-> "none", val |-> 0]
Missing == [kind |-> "absent", val |-> 0]
\* A list field (genre) is a set of slugs or is not carried by the body.
List(S) == [kind |-> "list", val |-> S]
MissingList == [kind |-> "absent", val |-> {}]

ADMIN == "admin"
MODERATOR == "moderator"
USER == "user"
ROLES == {ADMIN, MODERATOR, USER}

SCORE_CHOICES == 1..10

\* Strings whose characters matter (usernames) are sequences of characters.
UpperChars == <<"A","B","C","D","E","F","G","H","I","J","K","L","M",
                "N","O","P","Q","R","S","T","U","V","W","X","Y","Z">>
LowerChars == <<"a","b","c","d","e","f","g","h","i","j","k","l","m",
                "n","o","p","q","r","s","t","u","v","w","x","y","z">>

\* str.lower(), character by character.
LowerChar(c) ==
    IF \E i \in DOMAIN UpperChars : UpperChars[i] = c
    THEN LowerChars[CHOOSE i \in DOMAIN UpperChars : UpperChars[i] = c]
    ELSE c

Lower(s) == [i \in DOMAIN s |-> LowerChar(s[i])]

\* settings.VALIDATE_NAME, the reserved username.
VALIDATE_NAME == <<"m", "e">>

\* ------------------------------------------------------------------ bounds

MaxUsers == 2
MaxTitles == 2
MaxReviews == 2
MaxComments == 2
MaxPending == 2
\* The clock starts in StartYear and is followed for MaxTicks new years.
StartYear == 2022
MaxTicks == 1

\* ------------------------------------------------------------------ inputs

Usernames == { <<"m","e">>, <<"M","E">>, <<"M","e">>,
               <<"m","e","_","t","o","o">>, <<"b","o","b">> }
Emails == { "a@x", "b@x" }
RoleInputs == ROLES \cup { "owner", Absent }

Slugs == { "c1", "c2" }
GenreSlugs == { "g1" }
TitleNames == { "A", "B" }
YearInputs == StartYear .. (StartYear + MaxTicks + 1)
ScoreInputs == { Missing, None, Num(-1), Num(0), Num(8), Num(10), Num(11) }
\* The scores of the specification that follows concurrent review requests:
\* those a POST carries and those an update carries.
RaceScores == { Num(0), Num(8) }
RaceUpdateScores == { Missing, Num(0), Num(10) }

\* ------------------------------------------------------------------ helpers

\* A table without the rows whose key is in gone.
Without(table, gone) == [k \in DOMAIN table \ gone |-> table[k]]

\* A supplied field replaces the stored one; an absent one leaves it.
Merge(supplied, old) == IF supplied = Absent THEN old ELSE supplied
MergeName(supplied, old) == IF supplied = NoName THEN old ELSE supplied

\* What the client sees of a request: the operation and how it ended.
Response(op, status) == [errors |-> "", op |-> op, status |-> status]
\* How a validation or a write ends; errors names what a refusal is about:
\* a field, non_field_errors, or the violated constraint.
Outcome(status, errors) == [errors |-> errors, status |-> status]
Refusal(op, outcome) ==
    [errors |-> outcome.errors, op |-> op, status |-> outcome.status]

Init ==
    /\ users = << >>
    /\ categories = {}
    /\ genres = {}
    /\ titles = << >>
    /\ reviews = << >>
    /\ comments = << >>
    /\ seq = [comment |-> 1, review |-> 1, title |-> 1, user |-> 1]
    /\ pendingReviews = EmptyBag
    /\ pendingTitles = EmptyBag
    /\ now = StartYear
    /\ resp = Response("none", "none")

\* ------------------------------------------------------------------ users

\* UniqueValidator(queryset=User.objects.all()) on a field: no other row
\* carries the value. instance is the row being updated, 0 on creation.
UniqueUser(field, value, instance) ==
    \A i \in DOMAIN users \ {instance} : users[i][field] # value

\* Case-sensitive variant of the reserved-name check.
validate_username_exact(value) == value # VALIDATE_NAME

\* RegisterDataSerializer.validate_username: TRUE when the value passes.
validate_username(value) == Lower(value) # VALIDATE_NAME

\* RegisterDataSerializer.is_valid() for a payload.
RegisterDataValid(username, email) ==
    /\ UniqueUser("username", username, 0)
    /\ validate_username(username)
    /\ UniqueUser("email", email, 0)

\* Registration: RegisterDataSerializer validates, then the User is created
\* with the default role. A refusal names the first failing check: the
\* UniqueValidator of a field runs before its validate_<field> method.
Register(username, email) ==
    /\ seq.user <= MaxUsers
    /\ IF RegisterDataValid(username, email)
       THEN /\ users' = (seq.user :> [email |-> email, role |-> USER,
                                      username |-> username]) @@ users
            /\ seq' = [seq EXCEPT !.user = @ + 1]
            /\ resp' = Response("register", "Created")
       ELSE /\ resp' = Refusal("register", Outcome("ValidationError",
                    IF ~UniqueUser("username", username, 0)
                    THEN "username.unique"
                    ELSE IF ~validate_username(username)
                    THEN "username.invalid" ELSE "email.unique"))
            /\ UNCHANGED <<users, seq>>
    /\ UNCHANGED <<categories, genres, titles, reviews, comments,
                   pendingReviews, pendingTitles, now>>

\* The role field of UserSerializer is a ChoiceField over ROLES and is
\* optional (the column has a default): TRUE when the payload passes.
UserSerializerRoleValid(role) == role = Absent \/ role \in ROLES

\* The role UserSerializer writes: the supplied one, else the stored one.
UserSerializerRole(supplied, old) == Merge(supplied, old)

\* A self-edit representation whose role is writable.
UserEditSerializerRoleWritable(supplied, old) ==
    IF supplied \in ROLES THEN supplied ELSE old

\* The role UserEditSerializer writes: role is in read_only_fields, so the
\* supplied value is dropped from validated_data.
UserEditSerializerRole(supplied, old) == old

\* UserSerializer, creation (POST /users/).
UserCreate(username, email, role) ==
    /\ seq.user <= MaxUsers
    /\ IF /\ UniqueUser("username", username, 0)
          /\ UniqueUser("email", email, 0)
          /\ UserSerializerRoleValid(role)
       THEN /\ users' = (seq.user :> [email |-> email,
                                      role |-> UserSerializerRole(role, USER),
                                      username |-> username])
                        @@ users
            /\ seq' = [seq EXCEPT !.user = @ + 1]
            /\ resp' = Response("user_create", "Created")
       ELSE /\ resp' = Response("user_create", "ValidationError")
            /\ UNCHANGED <<users, seq>>
    /\ UNCHANGED <<categories, genres, titles, reviews, comments,
                   pendingReviews, pendingTitles, now>>

\* UserSerializer, partial update (PATCH /users/<username>/).
UserUpdate(id, username, email, role) ==
    /\ id \in DOMAIN users
    /\ IF /\ username = NoName \/ UniqueUser("username", username, id)
          /\ email = Absent \/ UniqueUser("email", email, id)
          /\ UserSerializerRoleValid(role)
       THEN /\ users' = [users EXCEPT ![id] =
                            [email |-> Merge(email, @.email),
                             role |-> UserSerializerRole(role, @.role),
                             username |-> MergeName(username, @.username)]]
            /\ resp' = Response("user_update", "OK")
       ELSE /\ resp' = Response("user_update", "ValidationError")
            /\ UNCHANGED users
    /\ UNCHANGED <<categories, genres, titles, reviews, comments, seq,
                   pendingReviews, pendingTitles, now>>

\* UserEditSerializer, partial update of one's own profile (PATCH /users/me/).
\* username and email keep the model's unique=True validators.
UserSelfEdit(id, username, email, role) ==
    /\ id \in DOMAIN users
    /\ IF /\ username = NoName \/ UniqueUser("username", username, id)
          /\ email = Absent \/ UniqueUser("email", email, id)
       THEN /\ users' = [users EXCEPT ![id] =
                            [email |-> Merge(email, @.email),
                             role |-> UserEditSerializerRole(role, @.role),
                             username |-> MergeName(username, @.username)]]
            /\ resp' = Response("user_self_edit", "OK")
       ELSE /\ resp' = Response("user_self_edit", "ValidationError")
            /\ UNCHANGED users
    /\ UNCHANGED <<categories, genres, titles, reviews, comments, seq,
                   pendingReviews, pendingTitles, now>>

\* Review.author is on_delete=CASCADE: the reviews a deleted user wrote.
ReviewsOfAuthor(id) == { r \in DOMAIN reviews : reviews[r].author = id }

\* Comment.review with on_delete=DO_NOTHING: no comment follows its review.
NoCommentCascade(gone) == {}

\* Comment.review is on_delete=CASCADE: the comments on deleted reviews.
CommentsOfReviews(gone) == { c \in DOMAIN comments : comments[c].review \in gone }

\* Comment.author is on_delete=CASCADE: the comments a deleted user wrote.
CommentsOfAuthor(id) == { c \in DOMAIN comments : comments[c].author = id }

\* Deleting a User row, with the cascades the collector follows.
UserDelete(id) ==
    /\ id \in DOMAIN users
    /\ users' = Without(users, {id})
    /\ reviews' = Without(reviews, ReviewsOfAuthor(id))
    /\ comments' = Without(comments, CommentsOfReviews(ReviewsOfAuthor(id))
                                     \cup CommentsOfAuthor(id))
    /\ resp' = Response("user_delete", "NoContent")
    /\ UNCHANGED <<categories, genres, titles, seq, pendingReviews,
                   pendingTitles, now>>

\* ------------------------------------------------------------------ categories, genres

\* CategorySerializer: slug is unique=True, so a UniqueValidator guards it.
CategoryCreate(slug) ==
    /\ IF slug \notin categories
       THEN /\ categories' = categories \cup {slug}
            /\ resp' = Response("category_create", "Created")
       ELSE /\ resp' = Response("category_create", "ValidationError")
            /\ UNCHANGED categories
    /\ UNCHANGED <<users, genres, titles, reviews, comments, seq,
                   pendingReviews, pendingTitles, now>>

\* Title.category with on_delete=CASCADE: the referencing titles go too.
TitlesAfterCategoryCascade(slug) ==
    Without(titles, { t \in DOMAIN titles : titles[t].category = slug })

\* Title.category is on_delete=SET_NULL: the Title table after the Category
\* row slug is deleted.
TitlesAfterCategoryDelete(slug) ==
    [t \in DOMAIN titles |->
        [titles[t] EXCEPT !.category = IF @ = slug THEN Null ELSE @]]

CategoryDelete(slug) ==
    /\ slug \in categories
    /\ categories' = categories \ {slug}
    /\ titles' = TitlesAfterCategoryDelete(slug)
    /\ resp' = Response("category_delete", "NoContent")
    /\ UNCHANGED <<users, genres, reviews, comments, seq,
                   pendingReviews, pendingTitles, now>>

\* GenreSerializer: slug is unique=True.
GenreCreate(slug) ==
    /\ IF slug \notin genres
       THEN /\ genres' = genres \cup {slug}
            /\ resp' = Response("genre_create", "Created")
       ELSE /\ resp' = Response("genre_create", "ValidationError")
            /\ UNCHANGED genres
    /\ UNCHANGED <<users, categories, titles, reviews, comments, seq,
                   pendingReviews, pendingTitles, now>>

\* Title.genre is a ManyToManyField: deleting a Genre deletes its rows of the
\* through table, so the genre leaves every title's set.
GenreDelete(slug) ==
    /\ slug \in genres
    /\ genres' = genres \ {slug}
    /\ titles' = [t \in DOMAIN titles |->
                     [titles[t] EXCEPT !.genre = @ \ {slug}]]
    /\ resp' = Response("genre_delete", "NoContent")
    /\ UNCHANGED <<users, categories, reviews, comments, seq,
                   pendingReviews, pendingTitles, now>>

\* ------------------------------------------------------------------ titles

\* reviews.validators.validate_year: TRUE when the value passes.
validate_year(value, year) == value <= year

\* TitleSerializer.validator_year. The framework calls validate_<field>
\* methods only, so no request ever reaches this method.
validator_year(value) == value <= now

\* A year column declared without validators.
TitleYearNoValidators(value) == TRUE

\* Title.year, validators=(validate_year, ): the validators the serializer
\* field inherits from the column.
TitleYearValidators(value) == validate_year(value, now)

\* Title.year is a PositiveSmallIntegerField.
TitleYearRange(value) == value >= 0 /\ value <= 32767

\* TitleSerializer.validate_rating, reached with an int.
validate_rating(value) == ~(value < 1 \/ value > 10)

\* Title.rating: MaxValueValidator(10), MinValueValidator(1).
TitleRatingValidators(value) == value <= 10 /\ value >= 1

\* UniqueTogetherValidator(queryset=Title.objects.all(), fields=(name, year)):
\* no other row carries the pair. instance is the row being updated, 0 on
\* creation.
UniqueTogether(name, year, instance) ==
    \A t \in DOMAIN titles \ {instance} :
        ~(titles[t].name = name /\ titles[t].year = year)

\* TitleSerializer.is_valid() for a payload [name, year, category, genre,
\* rating]; instance = 0 is a creation, otherwise a partial update of the row.
\* validate_rating(None) compares None with an int and raises TypeError.
TitleOutcome(instance, data) ==
    LET post == instance = 0
        nameOK == data.name # Absent \/ ~post
        yearOK == CASE data.year.kind = "absent" -> ~post
                    [] data.year.kind = "none" -> FALSE
                    [] OTHER -> /\ TitleYearRange(data.year.val)
                                /\ TitleYearValidators(data.year.val)
        ratingOK == \/ data.rating.kind = "absent"
                    \/ /\ data.rating.kind = "int"
                       /\ TitleRatingValidators(data.rating.val)
                       /\ validate_rating(data.rating.val)
        categoryOK == IF data.category = Absent THEN ~post
                      ELSE data.category \in categories
        genreOK == IF data.genre.kind = "absent" THEN ~post
                   ELSE data.genre.val \subseteq genres
        name == IF post THEN data.name ELSE Merge(data.name, titles[instance].name)
        year == IF data.year.kind = "int" THEN data.year.val
                ELSE titles[instance].year
    IN  IF data.rating.kind = "none" THEN Outcome("TypeError", "rating")
        ELSE IF ~yearOK THEN Outcome("ValidationError", "year")
        ELSE IF ~(nameOK /\ ratingOK /\ categoryOK /\ genreOK)
             THEN Outcome("ValidationError", "fields")
        ELSE IF ~UniqueTogether(name, year, instance)
             THEN Outcome("ValidationError", "non_field_errors")
        ELSE Outcome("OK", "")

\* The row ModelSerializer.create() inserts for validated data; validated is
\* the year in which the year field was validated.
TitleRow(data, validated) ==
    [category |-> data.category, genre |-> data.genre.val, name |-> data.name,
     rating |-> IF data.rating.kind = "absent" THEN None ELSE data.rating,
     validated |-> validated, year |-> data.year.val]

\* POST /titles/, first half: TitleSerializer.is_valid().
TitlePost(data) ==
    /\ BagCardinality(pendingTitles) < MaxPending
    /\ LET outcome == TitleOutcome(0, data)
       IN  IF outcome.status = "OK"
           THEN /\ pendingTitles' = pendingTitles
                        (+) SetToBag({[data |-> data, validated |-> now]})
                /\ resp' = Response("title_post", "Validated")
           ELSE /\ resp' = Refusal("title_post", outcome)
                /\ UNCHANGED pendingTitles
    /\ UNCHANGED <<users, categories, genres, titles, reviews, comments, seq,
                   pendingReviews, now>>

\* POST /titles/, second half: serializer.save(). The Title table carries no
\* constraint on (name, year); the foreign key to Category and the through
\* rows to Genre are checked by the database.
TitleSave(p) ==
    /\ BagIn(p, pendingTitles)
    /\ seq.title <= MaxTitles
    /\ LET row == TitleRow(p.data, p.validated)
       IN  /\ pendingTitles' = pendingTitles (-) SetToBag({p})
           /\ IF p.data.category \notin categories
              THEN /\ resp' = Response("title_save", "IntegrityError")
                   /\ UNCHANGED <<titles, seq>>
              ELSE /\ seq' = [seq EXCEPT !.title = @ + 1]
                   /\ IF p.data.genre.val \subseteq genres
                      THEN /\ titles' = (seq.title :> row) @@ titles
                           /\ resp' = Response("title_save", "Created")
                      ELSE /\ titles' = (seq.title :> [row EXCEPT !.genre = {}])
                                        @@ titles
                           /\ resp' = Response("title_save", "IntegrityError")
    /\ UNCHANGED <<users, categories, genres, reviews, comments,
                   pendingReviews, now>>

\* POST /titles/ served without another request in between.
TitleCreate(data) ==
    /\ seq.title <= MaxTitles
    /\ LET outcome == TitleOutcome(0, data)
       IN  IF outcome.status = "OK"
           THEN /\ titles' = (seq.title :> TitleRow(data, now)) @@ titles
                /\ seq' = [seq EXCEPT !.title = @ + 1]
                /\ resp' = Response("title_create", "Created")
           ELSE /\ resp' = Refusal("title_create", outcome)
                /\ UNCHANGED <<titles, seq>>
    /\ UNCHANGED <<users, categories, genres, reviews, comments,
                   pendingReviews, pendingTitles, now>>

\* PATCH /titles/<id>/: TitleSerializer with partial=True, then save().
TitlePatch(id, data) ==
    /\ id \in DOMAIN titles
    /\ LET outcome == TitleOutcome(id, data)
       IN  IF outcome.status = "OK"
           THEN /\ titles' = [titles EXCEPT ![id] =
                    [category |-> Merge(data.category, @.category),
                     genre |-> IF data.genre.kind = "list" THEN data.genre.val ELSE @.genre,
                     name |-> Merge(data.name, @.name),
                     rating |-> IF data.rating.kind = "absent" THEN @.rating ELSE data.rating,
                     validated |-> IF data.year.kind = "int" THEN now ELSE @.validated,
                     year |-> IF data.year.kind = "int" THEN data.year.val ELSE @.year]]
                /\ resp' = Response("title_patch", "OK")
           ELSE /\ resp' = Refusal("title_patch", outcome)
                /\ UNCHANGED titles
    /\ UNCHANGED <<users, categories, genres, reviews, comments, seq,
                   pendingReviews, pendingTitles, now>>

\* Review.title is on_delete=CASCADE: the reviews of a deleted title.
ReviewsOfTitle(id) == { r \in DOMAIN reviews : reviews[r].title = id }

\* Deleting a Title row, with the cascades the collector follows.
TitleDelete(id) ==
    /\ id \in DOMAIN titles
    /\ titles' = Without(titles, {id})
    /\ reviews' = Without(reviews, ReviewsOfTitle(id))
    /\ comments' = Without(comments, CommentsOfReviews(ReviewsOfTitle(id)))
    /\ resp' = Response("title_delete", "NoContent")
    /\ UNCHANGED <<users, categories, genres, seq, pendingReviews,
                   pendingTitles, now>>

\* New Year: datetime.datetime.now().year moves on.
Tick ==
    /\ now < StartYear + MaxTicks
    /\ now' = now + 1
    /\ UNCHANGED <<users, categories, genres, titles, reviews, comments, seq,
                   pendingReviews, pendingTitles, resp>>

\* ------------------------------------------------------------------ reviews

\* The Review table without its constraints.
NoReviewConstraint(title, author) == TRUE

\* Review.Meta.constraints, UniqueConstraint(fields=(title, author)): TRUE
\* when the database accepts a new row for the pair.
UniqueReview(title, author) ==
    \A r \in DOMAIN reviews :
        ~(reviews[r].title = title /\ reviews[r].author = author)

\* ReviewSerializer.validate_score, reached with an int: TRUE when it passes.
validate_score(value) == ~(value < 1 \/ value > 10)

\* The score field of ReviewSerializer. Review.score has choices and
\* null=True, so the field is a ChoiceField over SCORE_CHOICES with
\* required=False and allow_null=True: an absent score is skipped, None
\* passes the field and reaches validate_score, where None < 1 raises
\* TypeError.
ScoreOutcome(score) ==
    CASE score.kind = "absent" -> "OK"
      [] score.kind = "none" -> "TypeError"
      [] OTHER -> IF score.val \in SCORE_CHOICES /\ validate_score(score.val)
                  THEN "OK" ELSE "ValidationError"

\* A validate() that never looks for an earlier review.
validate_without_check(method, user, title_id) ==
    IF method # "POST" THEN Outcome("OK", "")
    ELSE IF user \notin DOMAIN users \/ title_id \notin DOMAIN titles
         THEN Outcome("NotFound", "")
    ELSE Outcome("OK", "")

\* ReviewSerializer.validate: "OK" stands for returning data.
validate(method, user, title_id) ==
    IF method # "POST" THEN Outcome("OK", "")
    ELSE IF user \notin DOMAIN users \/ title_id \notin DOMAIN titles
         THEN Outcome("NotFound", "")
    ELSE IF \E r \in DOMAIN reviews :
                reviews[r].title = title_id /\ reviews[r].author = user
         THEN Outcome("ValidationError", "non_field_errors")
    ELSE Outcome("OK", "")

\* ReviewSerializer.is_valid(): the fields first, validate() only when they
\* all pass.
ReviewOutcome(method, user, title_id, score) ==
    IF ScoreOutcome(score) # "OK" THEN Outcome(ScoreOutcome(score), "score")
    ELSE validate(method, user, title_id)

\* POST /titles/<title_id>/reviews/, first half: is_valid().
ReviewPost(user, title_id, score) ==
    /\ user \in DOMAIN users
    /\ BagCardinality(pendingReviews) < MaxPending
    /\ LET outcome == ReviewOutcome("POST", user, title_id, score)
       IN  IF outcome.status = "OK"
           THEN /\ pendingReviews' = pendingReviews
                        (+) SetToBag({[author |-> user, score |-> score,
                                       title |-> title_id]})
                /\ resp' = Response("review_post", "Validated")
           ELSE /\ resp' = Refusal("review_post", outcome)
                /\ UNCHANGED pendingReviews
    /\ UNCHANGED <<users, categories, genres, titles, reviews, comments, seq,
                   pendingTitles, now>>

\* POST /titles/<title_id>/reviews/, second half: serializer.save(author,
\* title). The database checks both foreign keys and the unique constraint;
\* a score the payload did not carry is stored as NULL.
ReviewSave(p) ==
    /\ BagIn(p, pendingReviews)
    /\ seq.review <= MaxReviews
    /\ pendingReviews' = pendingReviews (-) SetToBag({p})
    /\ IF ~(p.author \in DOMAIN users /\ p.title \in DOMAIN titles)
        THEN /\ resp' = Refusal("review_save",
                                Outcome("IntegrityError", "foreign_key"))
             /\ UNCHANGED <<reviews, seq>>
        ELSE IF UniqueReview(p.title, p.author)
        THEN /\ reviews' = (seq.review :>
                    [author |-> p.author,
                     score |-> IF p.score.kind = "absent" THEN None
                               ELSE p.score,
                     title |-> p.title]) @@ reviews
             /\ seq' = [seq EXCEPT !.review = @ + 1]
             /\ resp' = Response("review_save", "Created")
        ELSE /\ resp' = Refusal("review_save",
                                Outcome("IntegrityError", "unique_review"))
             /\ UNCHANGED <<reviews, seq>>
    /\ UNCHANGED <<users, categories, genres, titles, comments,
                   pendingTitles, now>>

\* PUT or PATCH /titles/<title_id>/reviews/<id>/: is_valid(), then save().
\* title and author are read-only fields, so only the score can change.
ReviewUpdate(id, method, score) ==
    /\ id \in DOMAIN reviews
    /\ LET r == reviews[id]
           outcome == ReviewOutcome(method, r.author, r.title, score)
       IN  IF outcome.status = "OK"
           THEN /\ reviews' = [reviews EXCEPT ![id].score =
                                  IF score.kind = "absent" THEN @ ELSE score]
                /\ resp' = Response("review_update", "OK")
           ELSE /\ resp' = Refusal("review_update", outcome)
                /\ UNCHANGED reviews
    /\ UNCHANGED <<users, categories, genres, titles, comments, seq,
                   pendingReviews, pendingTitles, now>>

\* Deleting a Review row, with the cascade to its comments.
ReviewDelete(id) ==
    /\ id \in DOMAIN reviews
    /\ reviews' = Without(reviews, {id})
    /\ comments' = Without(comments, CommentsOfReviews({id}))
    /\ resp' = Response("review_delete", "NoContent")
    /\ UNCHANGED <<users, categories, genres, titles, seq, pendingReviews,
                   pendingTitles, now>>

\* TitleReadSerializer.get_rating:
\* Review.objects.filter(title=obj.id).aggregate(Avg('score')). AVG skips
\* NULL scores and is NULL over no row; the mean is kept as sum / count.
get_rating(id) ==
    LET scored == { r \in ReviewsOfTitle(id) : reviews[r].score.kind = "int" }
        Sum[S \in SUBSET scored] ==
            IF S = {} THEN 0
            ELSE LET r == CHOOSE x \in S : TRUE
                 IN  reviews[r].score.val + Sum[S \ {r}]
    IN  IF scored = {} THEN None
        ELSE [den |-> Cardinality(scored), kind |-> "avg", num |-> Sum[scored]]

\* ------------------------------------------------------------------ comments

\* POST /titles/<title_id>/reviews/<review_id>/comments/: CommentSerializer
\* validates the text only; author and review come from the request.
CommentCreate(user, review_id) ==
    /\ user \in DOMAIN users
    /\ review_id \in DOMAIN reviews
    /\ seq.comment <= MaxComments
    /\ comments' = (seq.comment :> [author |-> user, review |-> review_id])
                   @@ comments
    /\ seq' = [seq EXCEPT !.comment = @ + 1]
    /\ resp' = Response("comment_create", "Created")
    /\ UNCHANGED <<users, categories, genres, titles, reviews,
                   pendingReviews, pendingTitles, now>>

CommentDelete(id) ==
    /\ id \in DOMAIN comments
    /\ comments' = Without(comments, {id})
    /\ resp' = Response("comment_delete", "NoContent")
    /\ UNCHANGED <<users, categories, genres, titles, reviews, seq,
                   pendingReviews, pendingTitles, now>>

\* POST /titles/<title_id>/reviews/ served without another request in
\* between: is_valid(), then serializer.save(author, title).
ReviewCreate(user, title_id, score) ==
    /\ user \in DOMAIN users
    /\ seq.review <= MaxReviews
    /\ LET outcome == ReviewOutcome("POST", user, title_id, score)
       IN  IF outcome.status # "OK"
           THEN /\ resp' = Refusal("review_create", outcome)
                /\ UNCHANGED <<reviews, seq>>
           ELSE IF UniqueReview(title_id, user)
           THEN /\ reviews' = (seq.review :>
                       [author |-> user,
                        score |-> IF score.kind = "absent" THEN None
                                  ELSE score,
                        title |-> title_id]) @@ reviews
                /\ seq' = [seq EXCEPT !.review = @ + 1]
                /\ resp' = Response("review_create", "Created")
           ELSE /\ resp' = Refusal("review_create",
                                   Outcome("IntegrityError", "unique_review"))
                /\ UNCHANGED <<reviews, seq>>
    /\ UNCHANGED <<users, categories, genres, titles, comments,
                   pendingReviews, pendingTitles, now>>

\* ------------------------------------------------------------------ specifications

\* Each specification follows the requests one part of the service takes;
\* the requests of the other parts are left out of it, so their tables stay
\* as they are.

\* The account and the title the k-th registration and the k-th title
\* creation carry where a specification does not vary them.
AccountList == << [email |-> "a@x", username |-> <<"b","o","b">>],
                 [email |-> "b@x", username |-> <<"m","e","_","t","o","o">>] >>
AccountOf(k) == AccountList[((k - 1) % Len(AccountList)) + 1]
TitleNameList == << "A", "B" >>
TitleNameOf(k) == TitleNameList[((k - 1) % Len(TitleNameList)) + 1]

\* A title payload of the current year with no genre and no rating.
TitleData(name, year, category) ==
    [category |-> category, genre |-> List({}), name |-> name,
     rating |-> Missing, year |-> year]

\* A title payload that carries a genre list and a rating.
TitleDataFull(name, category, genre, rating) ==
    [category |-> category, genre |-> List(genre), name |-> name,
     rating |-> rating, year |-> Num(StartYear)]

RegisterNext == Register(AccountOf(seq.user).username, AccountOf(seq.user).email)

\* Accounts: registration, the two user representations, deletion.
NextAccounts ==
    \/ \E n \in Usernames, e \in Emails : Register(n, e)
    \/ \E n \in Usernames, e \in Emails, r \in RoleInputs : UserCreate(n, e, r)
    \/ \E i \in 1..MaxUsers, n \in Usernames \cup {NoName},
          e \in Emails \cup {Absent}, r \in RoleInputs : UserUpdate(i, n, e, r)
    \/ \E i \in 1..MaxUsers, n \in Usernames \cup {NoName},
          e \in Emails \cup {Absent}, r \in RoleInputs : UserSelfEdit(i, n, e, r)
    \/ \E i \in 1..MaxUsers : UserDelete(i)

SpecAccounts == Init /\ [][NextAccounts]_vars

\* Years: title writes served one at a time while the year changes.
NextYears ==
    \/ CategoryCreate("c1")
    \/ \E n \in TitleNames, y \in YearInputs : TitleCreate(TitleData(n, Num(y), "c1"))
    \/ \E i \in 1..MaxTitles, n \in TitleNames \cup {Absent},
          y \in {Num(v) : v \in YearInputs} \cup {Missing} :
            TitlePatch(i, [TitleData(n, y, Absent) EXCEPT !.genre = MissingList])
    \/ \E i \in 1..MaxTitles : TitleDelete(i)
    \/ Tick

SpecYears == Init /\ [][NextYears]_vars

\* Titles: concurrent title writes while the year changes.
NextTitles ==
    \/ CategoryCreate("c1")
    \/ CategoryDelete("c1")
    \/ \E n \in TitleNames, y \in YearInputs : TitlePost(TitleData(n, Num(y), "c1"))
    \/ \E p \in BagToSet(pendingTitles) : TitleSave(p)
    \/ \E i \in 1..MaxTitles, n \in TitleNames \cup {Absent},
          y \in {Num(v) : v \in YearInputs} \cup {Missing} :
            TitlePatch(i, [TitleData(n, y, Absent) EXCEPT !.genre = MissingList])
    \/ \E i \in 1..MaxTitles : TitleDelete(i)
    \/ Tick

SpecTitles == Init /\ [][NextTitles]_vars

\* Reviews: concurrent review POSTs, updates and deletions.
NextReviews ==
    \/ RegisterNext
    \/ CategoryCreate("c1")
    \/ TitleCreate(TitleData(TitleNameOf(seq.title), Num(StartYear), "c1"))
    \/ \E u \in 1..MaxUsers, t \in 1..MaxTitles, s \in RaceScores :
            ReviewPost(u, t, s)
    \/ \E p \in BagToSet(pendingReviews) : ReviewSave(p)
    \/ \E i \in 1..MaxReviews, m \in {"PUT", "PATCH"}, s \in RaceUpdateScores :
            ReviewUpdate(i, m, s)
    \/ \E i \in 1..MaxReviews : ReviewDelete(i)

SpecReviews == Init /\ [][NextReviews]_vars

\* Ratings: scores written by review requests served one at a time, and the
\* rating read from them.
NextRatings ==
    \/ RegisterNext
    \/ \E i \in 1..MaxUsers : UserDelete(i)
    \/ CategoryCreate("c1")
    \/ \E r \in {Missing, Num(5)} :
            TitleCreate(TitleDataFull(TitleNameOf(seq.title), "c1", {}, r))
    \/ \E i \in 1..MaxTitles : TitleDelete(i)
    \/ \E u \in 1..MaxUsers, t \in 1..MaxTitles, s \in ScoreInputs :
            ReviewCreate(u, t, s)
    \/ \E i \in 1..MaxReviews, m \in {"PUT", "PATCH"}, s \in ScoreInputs :
            ReviewUpdate(i, m, s)
    \/ \E i \in 1..MaxReviews : ReviewDelete(i)

SpecRatings == Init /\ [][NextRatings]_vars

\* Cascades: deletions of users, titles, reviews and comments over a
\* populated database.
NextCascade ==
    \/ RegisterNext
    \/ \E i \in 1..MaxUsers : UserDelete(i)
    \/ CategoryCreate("c1")
    \/ TitleCreate(TitleData(TitleNameOf(seq.title), Num(StartYear), "c1"))
    \/ \E i \in 1..MaxTitles : TitleDelete(i)
    \/ \E u \in 1..MaxUsers, t \in 1..MaxTitles : ReviewCreate(u, t, Num(8))
    \/ \E i \in 1..MaxReviews : ReviewDelete(i)
    \/ \E u \in 1..MaxUsers, r \in 1..MaxReviews : CommentCreate(u, r)
    \/ \E i \in 1..MaxComments : CommentDelete(i)

SpecCascade == Init /\ [][NextCascade]_vars

\* Categories: categories and genres come and go under reviewed titles.
NextCategories ==
    \/ RegisterNext
    \/ \E c \in Slugs : CategoryCreate(c)
    \/ \E c \in Slugs : CategoryDelete(c)
    \/ \E g \in GenreSlugs : GenreCreate(g)
    \/ \E g \in GenreSlugs : GenreDelete(g)
    \/ \E c \in Slugs, g \in SUBSET GenreSlugs :
            TitleCreate(TitleDataFull(TitleNameOf(seq.title), c, g, Missing))
    \/ \E t \in 1..MaxTitles : ReviewCreate(1, t, Num(8))
    \/ \E r \in 1..MaxReviews : CommentCreate(1, r)

SpecCategories == Init /\ [][NextCategories]_vars

\* ------------------------------------------------------------------ properties

\* C1: at most one Review exists for each (title, author) pair, whatever the
\* interleaving of review POSTs, updates and deletions.
OneReviewPerPair ==
    \A r1, r2 \in DOMAIN reviews :
        (reviews[r1].title = reviews[r2].title
         /\ reviews[r1].author = reviews[r2].author) => r1 = r2

\* Two POSTs for one pair both passed validate(); the second save was
\* stopped by the unique constraint.
RaceStoppedByConstraint ==
    /\ resp.op = "review_save"
    /\ resp.status = "IntegrityError"
    /\ resp.errors = "unique_review"

\* C2: a POST whose fields are valid is refused with a validation error, and
\* writes nothing, when the acting user already reviewed the title; a PUT or
\* PATCH with valid fields is accepted and stores exactly the data it carries.
ValidateRefusesSecondReview ==
    [][/\ resp'.op = "review_post" =>
          \A u \in 1..MaxUsers, t \in 1..MaxTitles, s \in RaceScores :
            (/\ ReviewPost(u, t, s)
             /\ ScoreOutcome(s) = "OK"
             /\ \E r \in DOMAIN reviews :
                    reviews[r].title = t /\ reviews[r].author = u)
            => /\ resp'.status = "ValidationError"
               /\ resp'.errors = "non_field_errors"
               /\ reviews' = reviews
               /\ pendingReviews' = pendingReviews
       /\ resp'.op = "review_update" =>
          \A i \in 1..MaxReviews, m \in {"PUT", "PATCH"},
             s \in RaceUpdateScores :
            (ReviewUpdate(i, m, s) /\ ScoreOutcome(s) = "OK")
            => /\ resp'.status = "OK"
               /\ DOMAIN reviews' = DOMAIN reviews
               /\ reviews'[i].title = reviews[i].title
               /\ reviews'[i].author = reviews[i].author
               /\ s.kind = "int" => reviews'[i].score = s
               /\ s.kind = "absent" => reviews'[i].score = reviews[i].score
      ]_vars

\* A second POST for a reviewed title was refused by validate().
SecondReviewRefused ==
    /\ resp.op = "review_post"
    /\ resp.status = "ValidationError"
    /\ resp.errors = "non_field_errors"
    /\ reviews # << >>

\* C3: every stored Review has an integer score from 1 to 10.
StoredScoreInRange ==
    \A r \in DOMAIN reviews :
        reviews[r].score.kind = "int" /\ reviews[r].score.val \in 1..10

\* The sum of the scores of a set of reviews that all carry an int.
SumOfScores(R) ==
    LET Sum[S \in SUBSET R] ==
            IF S = {} THEN 0
            ELSE LET r == CHOOSE x \in S : TRUE
                 IN  reviews[r].score.val + Sum[S \ {r}]
    IN  Sum[R]

\* C4: the rating read for a title is null when no review references the
\* title, and otherwise the mean of the scores of all the reviews that
\* reference it.
RatingIsMeanOfReviews ==
    \A t \in DOMAIN titles :
        LET R == { r \in DOMAIN reviews : reviews[r].title = t }
            rating == get_rating(t)
        IN  IF R = {} THEN rating.kind = "none"
            ELSE /\ rating.kind = "avg"
                 /\ \A r \in R : reviews[r].score.kind = "int"
                 /\ rating.num * Cardinality(R) = SumOfScores(R) * rating.den

\* C5: the year of every title written through TitleSerializer, and of every
\* validated title write, was at most the current year when it was validated.
YearNotInFuture ==
    /\ \A t \in DOMAIN titles :
            titles[t].year <= titles[t].validated /\ titles[t].validated <= now
    /\ \A p \in BagToSet(pendingTitles) :
            p.data.year.val <= p.validated /\ p.validated <= now

\* A title of a later year was stored after the year changed, and a title
\* write was refused for its year.
FutureYearRefused ==
    /\ resp.op \in {"title_create", "title_patch"}
    /\ resp.status = "ValidationError"
    /\ resp.errors = "year"
    /\ \E t \in DOMAIN titles : titles[t].year > StartYear

\* C6: every Review references an existing Title and an existing User, and
\* every Comment an existing Review and an existing User.
NoDanglingReference ==
    /\ \A r \in DOMAIN reviews :
            reviews[r].title \in DOMAIN titles /\ reviews[r].author \in DOMAIN users
    /\ \A c \in DOMAIN comments :
            comments[c].review \in DOMAIN reviews
            /\ comments[c].author \in DOMAIN users

\* A title was deleted after reviews and comments had been written, and a
\* comment of another review is left.
CascadeDeleted ==
    /\ resp.op = "title_delete"
    /\ seq.review > MaxReviews
    /\ Cardinality(DOMAIN reviews) = 1
    /\ seq.comment > MaxComments
    /\ Cardinality(DOMAIN comments) = 1

\* C7: deleting a Category sets the category of the titles that referenced it
\* to null and changes no other column, no other title, no review and no
\* comment.
CategoryDeleteSetsNull ==
    [][(resp'.op = "category_delete" /\ categories' # categories)
       => LET gone == categories \ categories'
          IN  /\ DOMAIN titles' = DOMAIN titles
              /\ \A t \in DOMAIN titles :
                    /\ titles'[t].name = titles[t].name
                    /\ titles'[t].year = titles[t].year
                    /\ titles'[t].genre = titles[t].genre
                    /\ titles'[t].rating = titles[t].rating
                    /\ titles'[t].category =
                          IF titles[t].category \in gone THEN Null
                          ELSE titles[t].category
              /\ reviews' = reviews
              /\ comments' = comments
              /\ users' = users
              /\ genres' = genres
      ]_vars

\* A category was deleted under a reviewed and commented title; another
\* title keeps its category.
CategoryDeleted ==
    /\ resp.op = "category_delete"
    /\ \E t1, t2 \in DOMAIN titles :
            /\ titles[t1].category = Null
            /\ titles[t1].genre # {}
            /\ \E r \in DOMAIN reviews : reviews[r].title = t1
            /\ titles[t2].category \in categories
    /\ comments # << >>

\* C8: no two titles carry the same (name, year) pair.
UniqueNameYear ==
    \A t1, t2 \in DOMAIN titles :
        (titles[t1].name = titles[t2].name /\ titles[t1].year = titles[t2].year)
        => t1 = t2

\* The spellings of the reserved username.
ReservedSpellings == { <<"m","e">>, <<"M","E">>, <<"M","e">>, <<"m","E">> }

\* C9: registration refuses every spelling of the reserved username without
\* creating a user, and accepts a longer username that starts with it when
\* the username and the email are not taken.
ReservedUsernameRefused ==
    [][resp'.op = "register" =>
       \A n \in Usernames, e \in Emails :
        Register(n, e)
        => /\ n \in ReservedSpellings
              => resp'.status = "ValidationError" /\ users' = users
           /\ (/\ Len(n) > Len(VALIDATE_NAME)
               /\ SubSeq(n, 1, Len(VALIDATE_NAME)) = VALIDATE_NAME
               /\ \A i \in DOMAIN users :
                      users[i].username # n /\ users[i].email # e)
              => /\ resp'.status = "Created"
                 /\ \E i \in DOMAIN users' \ DOMAIN users :
                        users'[i].username = n /\ users'[i].email = e
      ]_vars

\* A registration was refused by validate_username after a username that
\* starts with the reserved one had been accepted.
ReservedRefused ==
    /\ resp.op = "register"
    /\ resp.status = "ValidationError"
    /\ resp.errors = "username.invalid"
    /\ \A i \in DOMAIN users : users[i].username = <<"m","e","_","t","o","o">>
    /\ users # << >>

\* C10: a write through UserEditSerializer leaves every role as it was; a
\* write through UserSerializer leaves every role in ROLES.
SelfEditKeepsRole ==
    [][/\ resp'.op = "user_self_edit"
          => /\ DOMAIN users' = DOMAIN users
             /\ \A i \in DOMAIN users : users'[i].role = users[i].role
       /\ resp'.op \in {"user_create", "user_update"}
          => \A i \in DOMAIN users' :
                users'[i].role \in {"admin", "moderator", "user"}
      ]_vars

\* A moderator edited their own profile.
SelfEdited ==
    /\ resp.op = "user_self_edit"
    /\ resp.status = "OK"
    /\ \E i \in DOMAIN users : users[i].role = "moderator"

====
